---- MODULE Spec2Model ----
(***************************************************************************)
(* Model of executor.go: the backend selector GetExecutor and the shared   *)
(* lifecycle controller BaseExecutor (Prepare / Wait / Cleanup).           *)
(*                                                                         *)
(* The caller's thread runs Prepare, Start, Wait and Cleanup one after the *)
(* other.  Wait blocks twice (in the select of line 122 and in the send of *)
(* line 154), so it is cut into one action per blocking point.  Three      *)
(* other tasks run beside it: the log watcher spawned at line 113, the     *)
(* backend that delivers the completion value, and an operator that may    *)
(* deliver an abort.  Channels are records [cap, buf]; a Go select that    *)
(* finds several cases ready takes any one of them.                        *)
(***************************************************************************)
EXTENDS Integers, Sequences, FiniteSets, TLC

\* ------------------------------------------------------------------ bounds
\* Abort sends attempted per attempt, by the operator and the watcher together.
MaxAborts == 2
\* Trace uploads the watcher performs per attempt.
MaxWrites == 1
\* Cleanup calls the caller makes on one Executor instance.
MaxCleanups == 2

\* --------------------------------------------------------- input alphabets
ExecutorNames == {"", "shell", "docker", "docker-ssh", "Docker"}
BuildsDirs == {"", "/home/ci"}
Timeouts == {-1, 0, 1}
NilErr == "<nil>"
FinishErrors == {NilErr, "exit code 1"}

\* ------------------------------------------------------ program constants
\* DEFAULT_TIMEOUT is declared outside executor.go; the model counts the
\* seconds of the timer one by one, so it stands for the constant with a
\* small number of seconds.
DEFAULT_TIMEOUT == 2
\* BuildState values used by Wait; Unset is the zero value of the local.
Success == "success"
Failed == "failed"
Unset == ""

\* Capacities of the three channels that Prepare makes (lines 74-76).  The
\* _Buffered and _Unbuffered variants are the capacity a make call copied
\* from the neighbouring line would give.
buildFinishCap_Unbuffered == 1 - 1
buildFinishCap == 1
buildLogFinishCap_Buffered == buildFinishCap
buildLogFinishCap == 0
buildAbortCap_Unbuffered == buildLogFinishCap
buildAbortCap == 1

\* ---------------------------------------------------------------- channels
NilChan == [cap |-> -1, buf |-> <<>>]
MakeChan(c) == [cap |-> c, buf |-> <<>>]
\* A send completes without a receiver only into free buffer space.
CanSend(ch) == Len(ch.buf) < ch.cap
CanRecv(ch) == Len(ch.buf) > 0
Send(ch, v) == [ch EXCEPT !.buf = Append(@, v)]
Recv(ch) == [ch EXCEPT !.buf = Tail(@)]

\* ------------------------------------------------------------- formatting
Digit(d) ==
  CASE d = 0 -> "0" [] d = 1 -> "1" [] d = 2 -> "2" [] d = 3 -> "3"
    [] d = 4 -> "4" [] d = 5 -> "5" [] d = 6 -> "6" [] d = 7 -> "7"
    [] d = 8 -> "8" [] d = 9 -> "9"

RECURSIVE Itoa(_)
\* The %d verb: decimal digits, most significant first, "-" for negatives.
Itoa(n) ==
  IF n < 0 THEN "-" \o Itoa(0 - n)
  ELSE IF n < 10 THEN Digit(n)
  ELSE Itoa(n \div 10) \o Digit(n % 10)

\* The notice without its %d verb.
TimeoutMessage_NoValue(t) == "\nCI Timeout. Execution took too long"

TimeoutMessage(t) ==
  "\nCI Timeout. Execution took longer then " \o Itoa(t) \o " seconds"

FailedMessage(err) == "\nBuild failed with " \o err

\* ------------------------------------------------------- backend selector
NoExecutor == [kind |-> "nil", DefaultBuildsDir |-> ""]

\* The selector with the shell executor as its default case.
GetExecutor_ShellFallback(name) ==
  CASE name = "docker" ->
         [kind |-> "DockerCommandExecutor", DefaultBuildsDir |-> "/builds"]
    [] name = "docker-ssh" ->
         [kind |-> "DockerSshExecutor", DefaultBuildsDir |-> "builds"]
    [] OTHER ->
         [kind |-> "ShellExecutor", DefaultBuildsDir |-> "tmp/builds"]

GetExecutor(name) ==
  CASE name \in {"shell", ""} ->
         [kind |-> "ShellExecutor", DefaultBuildsDir |-> "tmp/builds"]
    [] name = "docker" ->
         [kind |-> "DockerCommandExecutor", DefaultBuildsDir |-> "/builds"]
    [] name = "docker-ssh" ->
         [kind |-> "DockerSshExecutor", DefaultBuildsDir |-> "builds"]
    [] OTHER -> NoExecutor

\* ------------------------------------------------------------------- state
VARIABLES
  executorName,    \* config.Executor given to GetExecutor
  executor,        \* what GetExecutor returned
  config,          \* e.config: [ptr, BuildsDir]
  build,           \* e.build: [ptr, Timeout]
  builds_dir,      \* e.builds_dir
  script_data,     \* e.script_data; <<>> is the nil slice
  build_log,       \* e.build_log: "nil" or "log"
  buildAbort,      \* e.buildAbort
  buildFinish,     \* e.buildFinish
  buildLogFinish,  \* e.buildLogFinish
  buildAbortFunc,  \* TRUE when the backend supplied the callback
  pc,              \* position of the caller's thread
  prepareResult,   \* what Prepare returned
  waitResult,      \* what Wait returned
  buildTimeout,    \* local of Wait
  buildState,      \* local of Wait
  buildMessage,    \* local of Wait
  timerC,          \* channel returned by time.After
  elapsed,         \* seconds since time.After was called
  watcherPc,       \* position of the WatchTrace task
  backendPc,       \* position of the backend task
  operatorPc,      \* position of the operator that may abort
  abortsRaised,    \* abort sends attempted so far
  \* ---- observation of the collaborators' calls
  generateCalls,   \* directories Generate was called with
  createLogCalls,  \* CreateBuildLog calls
  openCalls,       \* CreateBuildLog calls that returned a log
  closeCalls,      \* Close calls on the log
  deleteCalls,     \* DeleteBuildLog calls
  cleanupCalls,    \* Cleanup calls
  events,          \* abortFunc / shutdown / FinishBuild / write, in order
  reported,        \* arguments of the FinishBuild calls
  \* ---- observation of the race
  fired,           \* signals in the order they were delivered
  firedAtListen,   \* value of fired when Wait entered the select
  resolved,        \* branch of the select that ran
  firedAtResolve,  \* value of fired when the select chose
  received         \* values Wait took from abort, timer and completion
                   \* channels, in order

vars == <<executorName, executor, config, build, builds_dir, script_data, build_log,
          buildAbort, buildFinish, buildLogFinish, buildAbortFunc, pc,
          prepareResult, waitResult, buildTimeout, buildState, buildMessage,
          timerC, elapsed, watcherPc, backendPc, operatorPc, abortsRaised,
          generateCalls, createLogCalls, openCalls, closeCalls, deleteCalls,
          cleanupCalls, events, reported, fired, firedAtListen, resolved, firedAtResolve,
          received>>

controllerVars == <<executorName, executor, config, build, builds_dir, script_data,
                    build_log, buildAbortFunc>>
waitLocals == <<buildTimeout, buildState, buildMessage>>
raceObs == <<firedAtListen, resolved, firedAtResolve, received>>
resourceObs == <<generateCalls, createLogCalls, openCalls, closeCalls,
                 deleteCalls, cleanupCalls>>

Init ==
  /\ \E name \in ExecutorNames :
       /\ executorName = name
       /\ executor = GetExecutor(name)
       /\ pc = IF GetExecutor(name) = NoExecutor THEN "unsupported" ELSE "new"
  /\ config = [ptr |-> "nil", BuildsDir |-> ""]
  /\ build = [ptr |-> "nil", Timeout |-> 0]
  /\ builds_dir = ""
  /\ script_data = <<>>
  /\ build_log = "nil"
  /\ buildAbort = NilChan
  /\ buildFinish = NilChan
  /\ buildLogFinish = NilChan
  /\ buildAbortFunc = FALSE
  /\ prepareResult = "none"
  /\ waitResult = "none"
  /\ buildTimeout = 0
  /\ buildState = Unset
  /\ buildMessage = ""
  /\ timerC = NilChan
  /\ elapsed = 0
  /\ watcherPc = "none"
  /\ backendPc = "none"
  /\ operatorPc = "idle"
  /\ abortsRaised = 0
  /\ generateCalls = <<>>
  /\ createLogCalls = 0
  /\ openCalls = 0
  /\ closeCalls = 0
  /\ deleteCalls = 0
  /\ cleanupCalls = 0
  /\ events = <<>>
  /\ reported = <<>>
  /\ fired = <<>>
  /\ firedAtListen = <<>>
  /\ resolved = "none"
  /\ firedAtResolve = <<>>
  /\ received = <<>>

\* ------------------------------------------------------------------ Prepare
\* The override used only when the backend has no default.
ResolveBuildsDir_DefaultWins(default, override) ==
  IF Len(default) # 0 THEN default ELSE override

\* Lines 79-82: the working directory.
ResolveBuildsDir(default, override) ==
  IF Len(override) # 0 THEN override ELSE default

\* Prepare that goes on to create the log when Generate failed, the return
\* of line 86 missing, and reports the failure only at the end.
Prepare_NoEarlyReturn(cfgDir, timeout, genOk, logOk) ==
  /\ pc = "new"
  /\ config' = [ptr |-> "set", BuildsDir |-> cfgDir]
  /\ build' = [ptr |-> "set", Timeout |-> timeout]
  /\ buildAbort' = MakeChan(buildAbortCap)
  /\ buildFinish' = MakeChan(buildFinishCap)
  /\ buildLogFinish' = MakeChan(buildLogFinishCap)
  /\ builds_dir' = ResolveBuildsDir(executor.DefaultBuildsDir, cfgDir)
  /\ generateCalls' = Append(generateCalls, builds_dir')
  /\ script_data' = IF genOk THEN <<"script", builds_dir'>> ELSE script_data
  /\ createLogCalls' = createLogCalls + 1
  /\ IF ~logOk
       THEN /\ prepareResult' = "log error"
            /\ UNCHANGED <<build_log, openCalls>>
            /\ pc' = "prepare_failed"
       ELSE /\ build_log' = "log"
            /\ openCalls' = openCalls + 1
            /\ prepareResult' = IF genOk THEN "nil" ELSE "generate error"
            /\ pc' = IF genOk THEN "prepared" ELSE "prepare_failed"
  /\ UNCHANGED <<executorName, executor, buildAbortFunc, waitResult,
                 waitLocals, timerC,
                 elapsed, watcherPc, backendPc, operatorPc, abortsRaised,
                 closeCalls, deleteCalls, cleanupCalls, events, reported,
                 fired, raceObs>>

\* Lines 71-97.  genOk and logOk are the outcomes of build.Generate and
\* build.CreateBuildLog.
Prepare(cfgDir, timeout, genOk, logOk) ==
  /\ pc = "new"
  /\ config' = [ptr |-> "set", BuildsDir |-> cfgDir]
  /\ build' = [ptr |-> "set", Timeout |-> timeout]
  /\ buildAbort' = MakeChan(buildAbortCap)
  /\ buildFinish' = MakeChan(buildFinishCap)
  /\ buildLogFinish' = MakeChan(buildLogFinishCap)
  /\ builds_dir' = ResolveBuildsDir(executor.DefaultBuildsDir, cfgDir)
  /\ generateCalls' = Append(generateCalls, builds_dir')
  /\ IF ~genOk
       THEN /\ prepareResult' = "generate error"
            /\ UNCHANGED <<script_data, build_log, createLogCalls, openCalls>>
            /\ pc' = "prepare_failed"
       ELSE /\ script_data' = <<"script", builds_dir'>>
            /\ createLogCalls' = createLogCalls + 1
            /\ IF ~logOk
                 THEN /\ prepareResult' = "log error"
                      /\ UNCHANGED <<build_log, openCalls>>
                      /\ pc' = "prepare_failed"
                 ELSE /\ build_log' = "log"
                      /\ openCalls' = openCalls + 1
                      /\ prepareResult' = "nil"
                      /\ pc' = "prepared"
  /\ UNCHANGED <<executorName, executor, buildAbortFunc, waitResult, waitLocals, timerC,
                 elapsed, watcherPc, backendPc, operatorPc, abortsRaised,
                 closeCalls, deleteCalls, cleanupCalls, events, reported,
                 fired, raceObs>>

\* ------------------------------------------------------------------ Cleanup
\* Lines 99-107.  The caller may call it whenever its thread is not inside
\* another call; the lifecycle only moves forward, so after Cleanup the only
\* call the caller still makes on the instance is Cleanup again.
CallerIdle ==
  pc \in {"new", "prepare_failed", "prepared", "started", "returned", "cleaned"}

\* Cleanup that closes the log whenever a build handle is present, the test
\* of line 104 made on e.build instead of e.build_log.
Cleanup_TestsBuild ==
  /\ CallerIdle
  /\ cleanupCalls < MaxCleanups
  /\ cleanupCalls' = cleanupCalls + 1
  /\ deleteCalls' = IF build.ptr # "nil" THEN deleteCalls + 1 ELSE deleteCalls
  /\ closeCalls' = IF build.ptr # "nil" THEN closeCalls + 1 ELSE closeCalls
  /\ pc' = "cleaned"
  /\ UNCHANGED <<controllerVars, buildAbort, buildFinish, buildLogFinish,
                 prepareResult, waitResult, waitLocals, timerC, elapsed,
                 watcherPc, backendPc, operatorPc, abortsRaised,
                 generateCalls, createLogCalls, openCalls, events, reported,
                 fired, raceObs>>

\* Cleanup without the nil test of line 104.
Cleanup_NoNilTest ==
  /\ CallerIdle
  /\ cleanupCalls < MaxCleanups
  /\ cleanupCalls' = cleanupCalls + 1
  /\ deleteCalls' = IF build.ptr # "nil" THEN deleteCalls + 1 ELSE deleteCalls
  /\ closeCalls' = closeCalls + 1
  /\ pc' = "cleaned"
  /\ UNCHANGED <<controllerVars, buildAbort, buildFinish, buildLogFinish,
                 prepareResult, waitResult, waitLocals, timerC, elapsed,
                 watcherPc, backendPc, operatorPc, abortsRaised,
                 generateCalls, createLogCalls, openCalls, events, reported,
                 fired, raceObs>>

Cleanup ==
  /\ CallerIdle
  /\ cleanupCalls < MaxCleanups
  /\ cleanupCalls' = cleanupCalls + 1
  /\ deleteCalls' = IF build.ptr # "nil" THEN deleteCalls + 1 ELSE deleteCalls
  /\ closeCalls' = IF build_log # "nil" THEN closeCalls + 1 ELSE closeCalls
  /\ pc' = "cleaned"
  /\ UNCHANGED <<controllerVars, buildAbort, buildFinish, buildLogFinish,
                 prepareResult, waitResult, waitLocals, timerC, elapsed,
                 watcherPc, backendPc, operatorPc, abortsRaised,
                 generateCalls, createLogCalls, openCalls, events, reported,
                 fired, raceObs>>

\* -------------------------------------------------------------------- Start
\* Executor.Start (line 13) belongs to the backend: it launches the task
\* that later delivers exactly one value on buildFinish, and the backend
\* may have installed buildAbortFunc (line 58) by then.
Start(withAbortFunc) ==
  /\ pc = "prepared"
  /\ pc' = "started"
  /\ backendPc' = "running"
  /\ buildAbortFunc' = withAbortFunc
  /\ UNCHANGED <<executorName, executor, config, build, builds_dir,
                 script_data, build_log,
                 buildAbort, buildFinish, buildLogFinish, prepareResult,
                 waitResult, waitLocals, timerC, elapsed, watcherPc,
                 operatorPc, abortsRaised, resourceObs, events, reported,
                 fired, raceObs>>

\* The backend task delivers its result on the completion channel.
BackendFinish(err) ==
  /\ backendPc = "running"
  /\ CanSend(buildFinish)
  /\ buildFinish' = Send(buildFinish, err)
  /\ fired' = Append(fired, "finish")
  /\ backendPc' = "done"
  /\ UNCHANGED <<controllerVars, buildAbort, buildLogFinish, pc,
                 prepareResult, waitResult, waitLocals, timerC, elapsed,
                 watcherPc, operatorPc, abortsRaised, resourceObs, events,
                 reported, raceObs>>

\* --------------------------------------------------------------- operator
\* An abort from outside the controller: one send on buildAbort, possible
\* as soon as Prepare has made the channel.
OperatorRaiseAbort ==
  /\ operatorPc = "idle"
  /\ buildAbort.cap >= 0
  /\ abortsRaised < MaxAborts
  /\ operatorPc' = "abort_send"
  /\ abortsRaised' = abortsRaised + 1
  /\ UNCHANGED <<controllerVars, buildAbort, buildFinish, buildLogFinish, pc,
                 prepareResult, waitResult, waitLocals, timerC, elapsed,
                 watcherPc, backendPc, resourceObs, events, reported, fired,
                 raceObs>>

OperatorSendAbort ==
  /\ operatorPc = "abort_send"
  /\ CanSend(buildAbort)
  /\ buildAbort' = Send(buildAbort, "true")
  /\ fired' = Append(fired, "abort")
  /\ operatorPc' = "done"
  /\ UNCHANGED <<controllerVars, buildFinish, buildLogFinish, pc,
                 prepareResult, waitResult, waitLocals, timerC, elapsed,
                 watcherPc, backendPc, abortsRaised, resourceObs, events,
                 reported, raceObs>>

\* ---------------------------------------------------------------- watcher
\* build.WatchTrace(config, abort, finished): streams the trace until it
\* receives on the shutdown channel, and may send on the abort channel.
CountOf(seq, x) == Cardinality({i \in DOMAIN seq : seq[i] = x})

WatcherWrite ==
  /\ watcherPc = "running"
  /\ CountOf(events, "write") < MaxWrites
  /\ events' = Append(events, "write")
  /\ UNCHANGED <<controllerVars, buildAbort, buildFinish, buildLogFinish, pc,
                 prepareResult, waitResult, waitLocals, timerC, elapsed,
                 watcherPc, backendPc, operatorPc, abortsRaised, resourceObs,
                 reported, fired, raceObs>>

WatcherRaiseAbort ==
  /\ watcherPc = "running"
  /\ abortsRaised < MaxAborts
  /\ watcherPc' = "abort_send"
  /\ abortsRaised' = abortsRaised + 1
  /\ UNCHANGED <<controllerVars, buildAbort, buildFinish, buildLogFinish, pc,
                 prepareResult, waitResult, waitLocals, timerC, elapsed,
                 backendPc, operatorPc, resourceObs, events, reported, fired,
                 raceObs>>

WatcherSendAbort ==
  /\ watcherPc = "abort_send"
  /\ CanSend(buildAbort)
  /\ buildAbort' = Send(buildAbort, "true")
  /\ fired' = Append(fired, "abort")
  /\ watcherPc' = "running"
  /\ UNCHANGED <<controllerVars, buildFinish, buildLogFinish, pc,
                 prepareResult, waitResult, waitLocals, timerC, elapsed,
                 backendPc, operatorPc, abortsRaised, resourceObs, events,
                 reported, raceObs>>

\* ------------------------------------------------------------------- timer
\* One second passes on the timer that time.After armed; at the deadline
\* the runtime puts the time on the timer's channel.
Tick ==
  /\ timerC.cap >= 0
  /\ elapsed < buildTimeout
  /\ elapsed' = elapsed + 1
  /\ IF elapsed' = buildTimeout
       THEN /\ timerC' = Send(timerC, "time")
            /\ fired' = Append(fired, "timeout")
       ELSE UNCHANGED <<timerC, fired>>
  /\ UNCHANGED <<controllerVars, buildAbort, buildFinish, buildLogFinish, pc,
                 prepareResult, waitResult, waitLocals, watcherPc, backendPc,
                 operatorPc, abortsRaised, resourceObs, events, reported,
                 raceObs>>

\* -------------------------------------------------------------------- Wait
\* Line 113: go e.build.WatchTrace(...).
WaitSpawn ==
  /\ pc = "started"
  /\ watcherPc' = "running"
  /\ pc' = "wait_spawned"
  /\ UNCHANGED <<controllerVars, buildAbort, buildFinish, buildLogFinish,
                 prepareResult, waitResult, waitLocals, timerC, elapsed,
                 backendPc, operatorPc, abortsRaised, resourceObs, events,
                 reported, fired, raceObs>>

\* The test of line 116 written < 0: a zero timeout is kept.
EffectiveTimeout_ZeroKept(t) == IF t < 0 THEN DEFAULT_TIMEOUT ELSE t

\* Lines 115-118.
EffectiveTimeout(t) == IF t <= 0 THEN DEFAULT_TIMEOUT ELSE t

\* The select entered without the timer case of line 131.
WaitListen_NoTimer ==
  /\ pc = "wait_spawned"
  /\ buildTimeout' = EffectiveTimeout(build.Timeout)
  /\ UNCHANGED <<timerC, elapsed>>
  /\ firedAtListen' = fired
  /\ pc' = "wait_select"
  /\ UNCHANGED <<controllerVars, buildAbort, buildFinish, buildLogFinish,
                 prepareResult, waitResult, buildState, buildMessage,
                 watcherPc, backendPc, operatorPc, abortsRaised, resourceObs,
                 events, reported, fired, resolved, firedAtResolve,
                 received>>

\* Lines 115-122: compute the timeout and enter the select, which arms the
\* timer of line 131.
WaitListen ==
  /\ pc = "wait_spawned"
  /\ buildTimeout' = EffectiveTimeout(build.Timeout)
  /\ timerC' = MakeChan(1)
  /\ elapsed' = 0
  /\ firedAtListen' = fired
  /\ pc' = "wait_select"
  /\ UNCHANGED <<controllerVars, buildAbort, buildFinish, buildLogFinish,
                 prepareResult, waitResult, buildState, buildMessage,
                 watcherPc, backendPc, operatorPc, abortsRaised, resourceObs,
                 events, reported, fired, resolved, firedAtResolve,
                 received>>

\* A branch that stays in the select, as a loop around it would.
AfterSelect_Loop == "wait_select"

\* Lines 150-154: each case of the select falls out of it to the shutdown
\* send.
AfterSelect == "wait_shutdown"

\* A callback that is never invoked.
CallAbortFunc_Skip(ev) == ev

\* A callback that is invoked again after it returned.
CallAbortFunc_Twice(ev) ==
  IF buildAbortFunc THEN Append(Append(ev, "abortFunc"), "abortFunc") ELSE ev

\* Lines 127-129 and 136-138: the optional callback.
CallAbortFunc(ev) == IF buildAbortFunc THEN Append(ev, "abortFunc") ELSE ev

\* Lines 123-129.
WaitSelectAbort ==
  /\ pc = "wait_select"
  /\ CanRecv(buildAbort)
  /\ buildAbort' = Recv(buildAbort)
  /\ buildState' = Failed
  /\ events' = CallAbortFunc(events)
  /\ resolved' = "abort"
  /\ firedAtResolve' = fired
  /\ received' = Append(received, [from |-> "abort", val |-> "true"])
  /\ pc' = AfterSelect
  /\ UNCHANGED <<controllerVars, buildFinish, buildLogFinish, prepareResult,
                 waitResult, buildTimeout, buildMessage, timerC, elapsed,
                 watcherPc, backendPc, operatorPc, abortsRaised, resourceObs,
                 reported, fired, firedAtListen>>

\* The timeout case taken without waiting for the timer, as a zero duration
\* or a default case would.
WaitSelectTimeout_NoWait ==
  /\ pc = "wait_select"
  /\ UNCHANGED timerC
  /\ buildState' = Failed
  /\ buildMessage' = TimeoutMessage(buildTimeout)
  /\ events' = CallAbortFunc(events)
  /\ resolved' = "timeout"
  /\ firedAtResolve' = fired
  /\ received' = Append(received, [from |-> "timeout", val |-> "time"])
  /\ pc' = AfterSelect
  /\ UNCHANGED <<controllerVars, buildAbort, buildFinish, buildLogFinish,
                 prepareResult, waitResult, buildTimeout, elapsed, watcherPc,
                 backendPc, operatorPc, abortsRaised, resourceObs, reported,
                 fired, firedAtListen>>

\* Lines 131-138.
WaitSelectTimeout ==
  /\ pc = "wait_select"
  /\ CanRecv(timerC)
  /\ timerC' = Recv(timerC)
  /\ buildState' = Failed
  /\ buildMessage' = TimeoutMessage(buildTimeout)
  /\ events' = CallAbortFunc(events)
  /\ resolved' = "timeout"
  /\ firedAtResolve' = fired
  /\ received' = Append(received, [from |-> "timeout", val |-> "time"])
  /\ pc' = AfterSelect
  /\ UNCHANGED <<controllerVars, buildAbort, buildFinish, buildLogFinish,
                 prepareResult, waitResult, buildTimeout, elapsed, watcherPc,
                 backendPc, operatorPc, abortsRaised, resourceObs, reported,
                 fired, firedAtListen>>

\* The error test of line 142 inverted.
FinishState_Inverted(err) == IF err = NilErr THEN Failed ELSE Success

\* Lines 142-149: the state a completion value stands for.
FinishState(err) == IF err # NilErr THEN Failed ELSE Success

\* Lines 140-149.
WaitSelectFinish ==
  /\ pc = "wait_select"
  /\ CanRecv(buildFinish)
  /\ LET err == Head(buildFinish.buf) IN
       /\ buildState' = FinishState(err)
       /\ buildMessage' = IF err # NilErr THEN FailedMessage(err)
                                          ELSE buildMessage
       /\ received' = Append(received, [from |-> "finish", val |-> err])
  /\ buildFinish' = Recv(buildFinish)
  /\ resolved' = "finish"
  /\ firedAtResolve' = fired
  /\ pc' = AfterSelect
  /\ UNCHANGED <<controllerVars, buildAbort, buildLogFinish, prepareResult,
                 waitResult, buildTimeout, timerC, elapsed, watcherPc,
                 backendPc, operatorPc, abortsRaised, resourceObs, events,
                 reported, fired, firedAtListen>>

\* Line 154: e.buildLogFinish <- true.  A send completes either into free
\* buffer space or in the step in which the receiver takes the value; the
\* channel of line 76 has no buffer, so the send completes in the step in
\* which the watcher, waiting in its loop, receives the value and terminates.
WaitShutdown ==
  /\ pc = "wait_shutdown"
  /\ IF CanSend(buildLogFinish)
       THEN /\ buildLogFinish' = Send(buildLogFinish, "true")
            /\ UNCHANGED watcherPc
       ELSE /\ watcherPc = "running"
            /\ watcherPc' = "done"
            /\ UNCHANGED buildLogFinish
  /\ events' = Append(events, "shutdown")
  /\ pc' = "wait_report"
  /\ UNCHANGED <<controllerVars, buildAbort, buildFinish,
                 prepareResult, waitResult, waitLocals, timerC, elapsed,
                 backendPc, operatorPc, abortsRaised, resourceObs, reported,
                 fired, raceObs>>

\* A report that is sent again, as a retry of the remote call would.
FinishBuild_Retry(rep, state, message) ==
  Append(Append(rep, [state |-> state, message |-> message]),
         [state |-> state, message |-> message])

\* Line 158: e.build.FinishBuild(*e.config, buildState, buildMessage).
FinishBuild(rep, state, message) ==
  Append(rep, [state |-> state, message |-> message])

\* The report sent without the shutdown send of line 154.
WaitReport_NoShutdown ==
  /\ pc \in {"wait_shutdown", "wait_report"}
  /\ reported' = FinishBuild(reported, buildState, buildMessage)
  /\ events' = Append(events, "FinishBuild")
  /\ waitResult' = "nil"
  /\ pc' = "returned"
  /\ UNCHANGED <<controllerVars, buildAbort, buildFinish, buildLogFinish,
                 prepareResult, waitLocals, timerC, elapsed, watcherPc,
                 backendPc, operatorPc, abortsRaised, resourceObs, fired,
                 raceObs>>

\* Lines 155-159: FinishBuild, then return nil.
WaitReport ==
  /\ pc = "wait_report"
  /\ reported' = FinishBuild(reported, buildState, buildMessage)
  /\ events' = Append(events, "FinishBuild")
  /\ waitResult' = "nil"
  /\ pc' = "returned"
  /\ UNCHANGED <<controllerVars, buildAbort, buildFinish, buildLogFinish,
                 prepareResult, waitLocals, timerC, elapsed, watcherPc,
                 backendPc, operatorPc, abortsRaised, resourceObs, fired,
                 raceObs>>

\* -------------------------------------------------------------------- Next
Next ==
  \/ \E d \in BuildsDirs, t \in Timeouts, g \in BOOLEAN, l \in BOOLEAN :
       Prepare(d, t, g, l)
  \/ \E f \in BOOLEAN : Start(f)
  \/ \E err \in FinishErrors : BackendFinish(err)
  \/ OperatorRaiseAbort
  \/ OperatorSendAbort
  \/ WatcherWrite
  \/ WatcherRaiseAbort
  \/ WatcherSendAbort
  \/ Tick
  \/ WaitSpawn
  \/ WaitListen
  \/ WaitSelectAbort
  \/ WaitSelectTimeout
  \/ WaitSelectFinish
  \/ WaitShutdown
  \/ WaitReport
  \/ Cleanup

Spec == Init /\ [][Next]_vars

\* The same program under the scheduling the Go runtime gives it: a
\* goroutine that can take its next step takes it, and an armed timer runs
\* down.  Nothing obliges the caller to call, the backend to finish, the
\* operator to abort or the watcher to write or raise an abort.
LiveSpec ==
  /\ Spec
  /\ WF_vars(Tick)
  /\ WF_vars(WaitListen)
  /\ WF_vars(WaitSelectAbort \/ WaitSelectTimeout \/ WaitSelectFinish)
  /\ WF_vars(WaitShutdown)
  /\ WF_vars(WaitReport)
  /\ WF_vars(WatcherSendAbort)

TypeOK ==
  /\ pc \in {"unsupported", "new", "prepare_failed", "prepared", "started",
             "wait_spawned", "wait_select", "wait_shutdown", "wait_report",
             "returned", "cleaned"}
  /\ watcherPc \in {"none", "running", "abort_send", "done"}
  /\ Len(buildAbort.buf) <= 1
  /\ Len(buildFinish.buf) <= 1
  /\ Len(buildLogFinish.buf) = 0
  /\ buildState \in {Unset, Success, Failed}

\* ================================================================== claims
\* a comes before b wherever both occur in seq.
Before(seq, a, b) ==
  \A i \in DOMAIN seq : \A j \in DOMAIN seq :
    (seq[i] = a /\ seq[j] = b) => i < j

Has(seq, x) == \E i \in DOMAIN seq : seq[i] = x

BeforeSelect ==
  pc \in {"unsupported", "new", "prepare_failed", "prepared", "started",
          "wait_spawned", "wait_select"}

WaitResolved == pc \in {"wait_shutdown", "wait_report", "returned"}

TheReport == [state |-> buildState, message |-> buildMessage]

\* ---------------------------------------------------------------------- C1
C1_State ==
  /\ Len(received) <= 1
  /\ (resolved = "none") <=> (received = <<>>)
  /\ received # <<>> => received[1].from = resolved
  /\ WaitResolved => resolved \in {"abort", "timeout", "finish"}
  /\ (BeforeSelect /\ pc # "wait_select") => resolved = "none"
  /\ pc = "wait_select" => resolved = "none"
  /\ resolved # "none" => buildState \in {Success, Failed}
  /\ resolved = "none" => (buildState = Unset /\ buildMessage = "")
  /\ \A i \in DOMAIN reported : reported[i] = TheReport

C1_Step ==
  resolved # "none" =>
    /\ resolved' = resolved
    /\ received' = received
    /\ buildState' = buildState
    /\ buildMessage' = buildMessage
    /\ \A i \in DOMAIN reported : i \in DOMAIN reported' /\ reported'[i] = reported[i]

\* C1: exactly one of the abort, timeout and completion branches resolves a
\* Wait call and determines exactly one BuildState; once it has, Wait takes
\* nothing more from the three channels, and the later delivery of the
\* losing signals changes neither the state nor the message that is reported.
C1_ExactlyOneBranchResolves == []C1_State /\ [][C1_Step]_vars

\* Resolved by abort and reported, with the completion value and the timer
\* both delivered after the select had chosen.
C1_Witness ==
  /\ pc = "returned"
  /\ resolved = "abort"
  /\ firedAtResolve = <<"abort">>
  /\ Has(fired, "finish") /\ Has(fired, "timeout")
  /\ reported = <<[state |-> Failed, message |-> ""]>>

\* ---------------------------------------------------------------------- C2
\* C2: FinishBuild is called exactly once per attempt: not before Wait is
\* past the shutdown rendezvous, once when Wait has returned, whichever
\* branch resolved it, and never by Prepare or Cleanup.
C2_ReportedExactlyOnce ==
  /\ Len(reported) <= 1
  /\ (Len(reported) = 1) <=> (waitResult = "nil")
  /\ pc = "returned" => Len(reported) = 1
  /\ (BeforeSelect \/ pc \in {"wait_shutdown", "wait_report"}) => reported = <<>>
  /\ (pc = "cleaned" /\ resolved = "none") => reported = <<>>
  /\ CountOf(events, "FinishBuild") = Len(reported)

\* Wait resolved by the timeout, reported once, and Cleanup ran afterwards.
C2_Witness ==
  /\ pc = "cleaned"
  /\ resolved = "timeout"
  /\ Len(reported) = 1
  /\ cleanupCalls >= 1

\* ---------------------------------------------------------------------- C3
\* C3: FinishBuild is called only after the send on the unbuffered shutdown
\* channel has completed, that is after the watcher has received the value;
\* while the send is pending nothing has been reported.
C3_ReportAfterRendezvous ==
  /\ pc = "wait_shutdown" => (reported = <<>> /\ ~Has(events, "shutdown"))
  /\ reported # <<>> =>
       /\ Has(events, "shutdown")
       /\ Before(events, "shutdown", "FinishBuild")
       /\ watcherPc = "done"
       /\ buildLogFinish.buf = <<>>

\* The report made after the rendezvous, the watcher having raised an abort
\* of its own before it stopped.
C3_Witness ==
  /\ pc = "returned"
  /\ events[Len(events)] = "FinishBuild"
  /\ Has(events, "shutdown")
  /\ watcherPc = "done"
  /\ Has(fired, "abort")

\* ---------------------------------------------------------------------- C4
\* C4: the reported state is Success exactly when the completion branch
\* resolved the attempt and the value received was the nil error; abort,
\* timeout and a completion carrying an error are reported as Failed.
C4_SuccessIffNilCompletion ==
  \A i \in DOMAIN reported :
    /\ reported[i].state \in {Success, Failed}
    /\ (reported[i].state = Success) <=>
         (received = <<[from |-> "finish", val |-> NilErr]>>)

\* A completion that carried an error was reported as Failed.
C4_Witness ==
  /\ reported = <<[state |-> Failed,
                  message |-> FailedMessage("exit code 1")]>>
  /\ received = <<[from |-> "finish", val |-> "exit code 1"]>>

\* ---------------------------------------------------------------------- C5
\* C5: with an abort callback supplied, the abort branch and the timeout
\* branch each invoke it exactly once, inside the branch, and before
\* FinishBuild is called.
C5_AbortFuncBeforeReport ==
  (buildAbortFunc /\ resolved \in {"abort", "timeout"}) =>
    /\ CountOf(events, "abortFunc") = 1
    /\ Before(events, "abortFunc", "FinishBuild")
    /\ Before(events, "abortFunc", "shutdown")

\* The timeout branch called the callback and the report followed.
C5_Witness ==
  /\ buildAbortFunc
  /\ resolved = "timeout"
  /\ Has(events, "abortFunc")
  /\ events[Len(events)] = "FinishBuild"

\* ---------------------------------------------------------------------- C6
\* C6: when Wait reports the final state the watcher has terminated: every
\* trace write of the watcher precedes the FinishBuild call and none
\* follows it.
C6_WatcherStoppedAtReport ==
  /\ reported # <<>> => watcherPc = "done"
  /\ Before(events, "write", "FinishBuild")
  /\ (Has(events, "FinishBuild") /\ Has(events, "write")) =>
       Before(events, "write", "shutdown")

\* The watcher wrote, stopped at the rendezvous, and the report followed.
C6_Witness ==
  /\ Has(events, "write")
  /\ Has(events, "FinishBuild")
  /\ watcherPc = "done"

\* ---------------------------------------------------------------------- C7
\* C7 as stated: among abort, timeout and completion, the signal that fired
\* first is the one that resolves Wait.
C7_FirstFiredWins == resolved # "none" => resolved = Head(fired)

\* C7 as amended: Wait is resolved by a signal that has already fired when
\* its three-way wait chooses.  While Wait is in the select, each branch can
\* run exactly when its signal has fired, so a signal that has fired alone
\* is the one that resolves Wait; when several have fired (abort and
\* completion are buffered and may both have been delivered before Wait
\* started listening) any one of them may resolve it, not only the first.
C7_FiredSignalWins ==
  /\ resolved # "none" => Has(firedAtResolve, resolved)
  /\ pc = "wait_select" =>
       /\ (ENABLED WaitSelectAbort) <=> Has(fired, "abort")
       /\ (ENABLED WaitSelectTimeout) <=> Has(fired, "timeout")
       /\ (ENABLED WaitSelectFinish) <=> Has(fired, "finish")

\* Abort and completion were both delivered before Wait listened, in that
\* order, and the completion resolved Wait.
C7_Witness ==
  /\ firedAtListen = <<"abort", "finish">>
  /\ firedAtResolve = <<"abort", "finish">>
  /\ resolved = "finish"

\* ---------------------------------------------------------------------- C8
\* C8: an abort sent after Prepare and before Wait listens is not lost: the
\* first abort's sender finds room in the channel and does not block, the
\* value stays in the channel until Wait enters its three-way wait, and
\* there the abort branch can run.
C8_EarlyAbortNotLost ==
  /\ (buildAbort # NilChan /\ ~Has(fired, "abort")) => CanSend(buildAbort)
  /\ (BeforeSelect /\ Has(fired, "abort")) => CanRecv(buildAbort)
  /\ (pc = "wait_select" /\ Has(firedAtListen, "abort")) =>
       ENABLED WaitSelectAbort

\* Wait is in its three-way wait and the abort was delivered before it
\* entered it.
C8_Witness ==
  /\ pc = "wait_select"
  /\ firedAtListen = <<"abort">>
  /\ operatorPc = "done"
  /\ CanRecv(buildAbort)

\* ---------------------------------------------------------------------- C9
\* The watcher is blocked sending an abort into the full abort channel while
\* Wait, past its select, no longer receives from it: the watcher can then
\* never receive the shutdown value.
WatcherNeverReceives ==
  /\ pc = "wait_shutdown"
  /\ watcherPc = "abort_send"
  /\ ~CanSend(buildAbort)

WaitGaveVerdict ==
  /\ pc = "returned"
  /\ waitResult = "nil"
  /\ Len(reported) = 1

\* C9: when the timer runs down and the watcher receives the shutdown value,
\* every Wait call ends by calling FinishBuild and returning nil, also when
\* the backend never delivers a completion value and no abort is sent; the
\* only other end of a Wait call is the state in which the watcher cannot
\* receive the shutdown value.
C9_WaitGivesVerdict ==
  (pc = "wait_spawned") ~> (WaitGaveVerdict \/ WatcherNeverReceives)

\* Wait returned through the timeout with the backend still running and no
\* abort ever raised.
C9_Witness ==
  /\ WaitGaveVerdict
  /\ fired = <<"timeout">>
  /\ backendPc = "running"
  /\ abortsRaised = 0
  /\ reported[1].state = Failed

C11_State ==
  /\ (CallerIdle /\ cleanupCalls < MaxCleanups) => ENABLED Cleanup
  /\ build_log = "nil" => closeCalls = 0
  /\ openCalls = 0 => closeCalls = 0
  /\ deleteCalls = IF build.ptr # "nil" THEN cleanupCalls ELSE 0

C11_Step ==
  cleanupCalls' # cleanupCalls =>
    /\ UNCHANGED <<buildAbort, buildFinish, buildLogFinish, timerC>>
    /\ UNCHANGED <<fired, received, events, reported>>
    /\ closeCalls' # closeCalls => build_log = "log"
    /\ deleteCalls' # deleteCalls => build.ptr = "set"

\* C11: Cleanup can be called in every lifecycle state (before Prepare,
\* after a Prepare that failed at script generation or at log creation,
\* after a successful Prepare without Wait): it does not block, leaves the
\* three channels alone, calls Close only on a log that was opened, and
\* calls DeleteBuildLog only when the build handle is present.
C11_CleanupAlwaysSafe == []C11_State /\ [][C11_Step]_vars

\* Cleanup ran after Generate failed: the log artifact was deleted through
\* the build handle and nothing was closed.
C11_Witness ==
  /\ pc = "cleaned"
  /\ prepareResult = "generate error"
  /\ cleanupCalls = 1
  /\ deleteCalls = 1
  /\ closeCalls = 0

\* --------------------------------------------------------------------- C12
\* C12: Prepare returns the error of a failed script generation at once,
\* with the three channels made, script and log unset and CreateBuildLog
\* never called; it returns the error of a failed log creation with the log
\* unset; it returns nil only when script and log were both produced.
C12_PrepareErrors ==
  /\ prepareResult = "generate error" =>
       /\ buildAbort.cap = 1 /\ buildFinish.cap = 1 /\ buildLogFinish.cap = 0
       /\ script_data = <<>>
       /\ build_log = "nil"
       /\ createLogCalls = 0
  /\ prepareResult = "log error" =>
       /\ buildAbort.cap = 1 /\ buildFinish.cap = 1 /\ buildLogFinish.cap = 0
       /\ script_data # <<>>
       /\ build_log = "nil"
       /\ createLogCalls = 1
       /\ openCalls = 0
  /\ (prepareResult = "nil") <=> (script_data # <<>> /\ build_log = "log")
  /\ prepareResult = "none" => (config.ptr = "nil" /\ buildAbort = NilChan)
  /\ pc = "prepare_failed" => prepareResult \in {"generate error", "log error"}
  /\ pc = "prepared" => prepareResult = "nil"

\* Prepare returned the error of Generate.
C12_Witness ==
  /\ pc = "prepare_failed"
  /\ prepareResult = "generate error"
  /\ Len(generateCalls) = 1
  /\ buildLogFinish = MakeChan(buildLogFinishCap)

\* --------------------------------------------------------------------- C13
\* The timeout notice showing n seconds.  The number is the only part of the
\* notice that varies, so the notice contains the decimal n exactly when it
\* is this string.
NoticeOfSeconds(n) ==
  "\nCI Timeout. Execution took longer then " \o Itoa(n) \o " seconds"

NoticeOfError(err) == "\nBuild failed with " \o err

\* The messages of the three cases that do not depend on the timeout.
C13_OtherMessages(r) ==
  /\ resolved = "abort" => r.message = ""
  /\ received = <<[from |-> "finish", val |-> NilErr]>> => r.message = ""
  /\ (resolved = "finish" /\ received[1].val # NilErr) =>
       r.message = NoticeOfError(received[1].val)

\* C13 as stated: the reported message is empty after an abort and after a
\* nil completion, embeds the error after a failed completion, and after a
\* timeout is a notice containing the configured timeout in seconds.
C13_ShowsConfiguredTimeout ==
  \A i \in DOMAIN reported :
    /\ C13_OtherMessages(reported[i])
    /\ resolved = "timeout" =>
         reported[i].message = NoticeOfSeconds(build.Timeout)

\* C13 as amended: as stated, except that the timeout notice contains the
\* effective timeout in seconds: the configured timeout when that is
\* positive, and the default timeout when it is zero or negative.
C13_ShowsEffectiveTimeout ==
  \A i \in DOMAIN reported :
    /\ C13_OtherMessages(reported[i])
    /\ resolved = "timeout" =>
         reported[i].message =
           NoticeOfSeconds(IF build.Timeout > 0 THEN build.Timeout
                                                ELSE DEFAULT_TIMEOUT)

\* A build configured with timeout 0 timed out and the notice shows the
\* default timeout.
C13_Witness ==
  /\ resolved = "timeout"
  /\ build.Timeout = 0
  /\ Len(reported) = 1
  /\ reported[1].message = NoticeOfSeconds(DEFAULT_TIMEOUT)

\* --------------------------------------------------------------------- C14
ExpectedTimeout == IF build.Timeout > 0 THEN build.Timeout ELSE DEFAULT_TIMEOUT

\* C14: the timeout Wait arms is the configured timeout when that is
\* positive and the default constant when it is zero or negative, and the
\* timeout branch runs only when that many seconds have passed since the
\* timer was armed.
C14_EffectiveTimeout ==
  /\ timerC # NilChan => (buildTimeout = ExpectedTimeout /\ buildTimeout > 0)
  /\ (timerC # NilChan /\ elapsed < ExpectedTimeout) =>
       (~Has(fired, "timeout") /\ resolved # "timeout")
  /\ (pc = "wait_select" /\ elapsed < ExpectedTimeout) =>
       ~ENABLED WaitSelectTimeout
  /\ (pc = "wait_select" /\ elapsed = ExpectedTimeout) =>
       ENABLED WaitSelectTimeout
  /\ resolved = "timeout" => elapsed = ExpectedTimeout

\* A build configured with a negative timeout timed out after the default
\* number of seconds.
C14_Witness ==
  /\ resolved = "timeout"
  /\ build.Timeout = -1
  /\ buildTimeout = DEFAULT_TIMEOUT
  /\ elapsed = DEFAULT_TIMEOUT

\* --------------------------------------------------------------------- C15
\* C15: the selector maps "" and "shell" to a shell executor with default
\* directory tmp/builds, "docker" to a container executor with /builds,
\* "docker-ssh" to a container-over-remote executor with builds, and every
\* other identifier, case variants included, to the nil executor; it does
\* nothing else and raises no error.
C15_SelectorMapping ==
  /\ executorName \in {"", "shell"} =>
       executor = [kind |-> "ShellExecutor", DefaultBuildsDir |-> "tmp/builds"]
  /\ executorName = "docker" =>
       executor = [kind |-> "DockerCommandExecutor",
                   DefaultBuildsDir |-> "/builds"]
  /\ executorName = "docker-ssh" =>
       executor = [kind |-> "DockerSshExecutor", DefaultBuildsDir |-> "builds"]
  /\ executorName \notin {"", "shell", "docker", "docker-ssh"} =>
       /\ executor = NoExecutor
       /\ pc = "unsupported"
       /\ prepareResult = "none"
       /\ buildAbort = NilChan
       /\ cleanupCalls = 0
  /\ executor # NoExecutor => pc # "unsupported"

\* A case variant of a supported identifier selected no executor.
C15_Witness ==
  /\ executorName = "Docker"
  /\ executor = NoExecutor
  /\ pc = "unsupported"

\* --------------------------------------------------------------------- C16
\* C16: Prepare resolves the working directory to the configuration
\* override whenever that is not empty and to the backend default exactly
\* when it is empty, and generates the script rooted at that directory.
C16_OverrideTakesPrecedence ==
  config.ptr = "set" =>
    /\ config.BuildsDir # "" => builds_dir = config.BuildsDir
    /\ config.BuildsDir = "" => builds_dir = executor.DefaultBuildsDir
    /\ (builds_dir = executor.DefaultBuildsDir) <=> (config.BuildsDir = "")
    /\ generateCalls = <<builds_dir>>
    /\ script_data # <<>> => script_data = <<"script", builds_dir>>

\* The override replaced the default of the container backend and the
\* script was generated in it.
C16_Witness ==
  /\ executorName = "docker"
  /\ config.BuildsDir = "/home/ci"
  /\ builds_dir = "/home/ci"
  /\ script_data = <<"script", "/home/ci">>

\* --------------------------------------------------------------------- C17
C17_State ==
  WatcherNeverReceives =>
    /\ resolved # "none"
    /\ reported = <<>>
    /\ waitResult = "none"
    /\ ~ENABLED WaitShutdown
    /\ ~ENABLED WaitReport

C17_Step ==
  /\ WatcherNeverReceives => WatcherNeverReceives'
  /\ (pc = "wait_shutdown" /\ pc' # "wait_shutdown") =>
       (watcherPc = "running" /\ watcherPc' = "done")
  /\ reported' # reported => (pc = "wait_report" /\ watcherPc = "done")

\* C17: the shutdown send has no timeout and no cancellation of its own:
\* Wait leaves it only in the step in which the watcher receives the value,
\* and once the watcher can never receive it Wait stays blocked in the send
\* for ever, FinishBuild is never called and Wait never returns, whatever
\* the timer and the other signals do afterwards.
C17_ShutdownSendUnbounded == []C17_State /\ [][C17_Step]_vars

\* Wait resolved without the timer, the watcher cannot receive, and the
\* timer has since run down without releasing Wait.
C17_Witness ==
  /\ WatcherNeverReceives
  /\ resolved = "finish"
  /\ CanRecv(timerC)
  /\ reported = <<>>

\* --------------------------------------------------------------------- C18
\* C18: when at most one abort is sent per attempt, by the watcher or by
\* anyone else, no abort send blocks on the abort channel of capacity 1, so
\* Wait blocked in the shutdown send with the watcher blocked in an abort
\* send is unreachable, also when the watcher raises its abort after Wait
\* resolved through the timeout or the completion branch.
C18_OneAbortNeverBlocks ==
  abortsRaised <= 1 =>
    /\ watcherPc = "abort_send" => ENABLED WatcherSendAbort
    /\ operatorPc = "abort_send" => ENABLED OperatorSendAbort
    /\ ~WatcherNeverReceives
    /\ (pc = "wait_shutdown" /\ watcherPc = "running") => ENABLED WaitShutdown
    /\ pc = "wait_shutdown" => watcherPc \in {"running", "abort_send"}

\* The watcher raised the only abort after Wait had resolved through the
\* timeout, and Wait still returned.
C18_Witness ==
  /\ abortsRaised = 1
  /\ operatorPc = "idle"
  /\ firedAtResolve = <<"timeout">>
  /\ fired = <<"timeout", "abort">>
  /\ pc = "returned"

\* --------------------------------------------------------------------- C19
\* C19: the backend's single send on the completion channel never blocks,
\* whichever branch resolved Wait and also after Wait has returned: the
\* channel of capacity 1 takes the value and the backend task can end.
C19_CompletionSendNeverBlocks ==
  /\ backendPc = "running" =>
       /\ CanSend(buildFinish)
       /\ \A err \in FinishErrors : ENABLED BackendFinish(err)
  /\ backendPc = "done" => CountOf(fired, "finish") = 1

\* The backend delivered its value after Wait had resolved through the
\* abort branch and returned; the value stays in the channel.
C19_Witness ==
  /\ backendPc = "done"
  /\ pc = "returned"
  /\ resolved = "abort"
  /\ ~Has(firedAtResolve, "finish")
  /\ CanRecv(buildFinish)

\* --------------------------------------------------------------------- C20
\* C20: the abort callback is invoked at most once per Wait call, only when
\* the abort or the timeout branch resolved it, never when the completion
\* branch did, and before Wait sends the shutdown value.
C20_AbortFuncOnlyOnAbortOrTimeout ==
  /\ CountOf(events, "abortFunc") <= 1
  /\ Has(events, "abortFunc") =>
       (buildAbortFunc /\ resolved \in {"abort", "timeout"})
  /\ resolved \in {"none", "finish"} => ~Has(events, "abortFunc")
  /\ Before(events, "abortFunc", "shutdown")
  /\ pc = "wait_shutdown" =>
       (Has(events, "abortFunc") <=>
          (buildAbortFunc /\ resolved \in {"abort", "timeout"}))

\* A callback was supplied, the completion branch resolved Wait with an
\* error, and Wait returned without invoking it.
C20_Witness ==
  /\ buildAbortFunc
  /\ resolved = "finish"
  /\ reported = <<[state |-> Failed,
                  message |-> FailedMessage("exit code 1")]>>
  /\ ~Has(events, "abortFunc")

====
